---------------------------- MODULE Spec2Model ----------------------------
(***************************************************************************)
(* tree_bench/to_csv.py: a filter that turns a benchmark log into CSV.     *)
(* It writes a header, then reads standard input line by line; a line read *)
(* while `record` is None is normalised and decoded as JSON into `record`, *)
(* and a line read while `record` holds a value must carry a throughput    *)
(* figure, which is stored into the record before the record is written    *)
(* as one CSV row.                                                         *)
(*                                                                         *)
(* Text is modelled as a sequence of one-character strings, so that the    *)
(* two substitutions, the JSON decoder, the regular expression search and  *)
(* float() are computed on the characters of a line.                       *)
(***************************************************************************)
EXTENDS Integers, Sequences, FiniteSets, TLC

\* The most lines the model lets the program read from standard input.
MaxLines == 5

---------------------------------------------------------------------------
(* Character classes of the regular expressions and of the JSON decoder.  *)

Digits == {"0", "1", "2", "3", "4", "5", "6", "7", "8", "9"}

Letters ==
    {"a", "b", "c", "d", "e", "f", "g", "h", "i", "j", "k", "l", "m",
     "n", "o", "p", "q", "r", "s", "t", "u", "v", "w", "x", "y", "z",
     "A", "B", "C", "D", "E", "F", "G", "H", "I", "J", "K", "L", "M",
     "N", "O", "P", "Q", "R", "S", "T", "U", "V", "W", "X", "Y", "Z"}

\* \w of line 29, on ASCII text.
WordChars == Letters \cup Digits \cup {"_"}

\* \s of line 33, on ASCII text.
SpaceChars == {" ", "\t", "\n", "\r", "\f"}

\* [\d.] of line 33.
DigitDotChars == Digits \cup {"."}

\* The whitespace json.loads skips between tokens.
JsonWs == {" ", "\t", "\n", "\r"}

---------------------------------------------------------------------------
(* Scanning helpers.                                                       *)

\* The last index of the run of characters of C that starts at i (i - 1
\* when s[i] is not in C): what a greedy C* consumes from i.
RECURSIVE RunEnd(_, _, _)
RunEnd(s, i, C) ==
    IF i <= Len(s) /\ s[i] \in C THEN RunEnd(s, i + 1, C) ELSE i - 1

\* Whether the literal text lit stands in s at index i.
HasAt(s, i, lit) ==
    /\ i >= 1
    /\ i + Len(lit) - 1 <= Len(s)
    /\ SubSeq(s, i, i + Len(lit) - 1) = lit

\* The first index at or after i where character c stands; Len(s) + 1 when
\* there is none.
RECURSIVE Find(_, _, _)
Find(s, i, c) ==
    IF i > Len(s) \/ s[i] = c THEN i ELSE Find(s, i + 1, c)

\* The number a run of decimal digits denotes.
DigitVal(c) ==
    CASE c = "0" -> 0 [] c = "1" -> 1 [] c = "2" -> 2 [] c = "3" -> 3
      [] c = "4" -> 4 [] c = "5" -> 5 [] c = "6" -> 6 [] c = "7" -> 7
      [] c = "8" -> 8 [] c = "9" -> 9

RECURSIVE ToNat(_)
ToNat(ds) ==
    IF ds = <<>> THEN 0
    ELSE 10 * ToNat(SubSeq(ds, 1, Len(ds) - 1)) + DigitVal(ds[Len(ds)])

---------------------------------------------------------------------------
(* Python values.  A value carries its type in t and its content in a     *)
(* field of that type's own, so that values of different types are       *)
(* unequal.  None is the value of `record = None` (line 26) and also what  *)
(* json.loads returns for null.                                            *)

None == [t |-> "NoneType"]

PyBool(b) == [t |-> "bool", b |-> b]

PyInt(n) == [t |-> "int", i |-> n]

PyStr(s) == [t |-> "str", s |-> s]

PyList(s) == [t |-> "list", l |-> s]

\* A dict: d maps each key (text) to its value.
PyDict(f) == [t |-> "dict", d |-> f]

\* A float, as the decimal m * 10^(-e) in lowest terms (e >= 0, and m is
\* not a multiple of 10 unless e = 0): 7.5 is m = 75, e = 1, whichever
\* spelling ("7.5", "007.50") it was read from.
RECURSIVE PyFloat(_, _)
PyFloat(m, e) ==
    IF e > 0 /\ m % 10 = 0 THEN PyFloat(m \div 10, e - 1)
    ELSE [t |-> "float", m |-> m, e |-> e]

---------------------------------------------------------------------------
(* Line 29: re.sub(r"(\w+):", '"\\1":', line).  Every maximal run of word  *)
(* characters that a colon follows is put between double quotes.  (A       *)
(* shorter run cannot match: the character after it is a word character,   *)
(* not the colon.)                                                         *)

RECURSIVE QuoteKeysFrom(_, _)
QuoteKeysFrom(s, i) ==
    IF i > Len(s) THEN <<>>
    ELSE IF s[i] \in WordChars
    THEN LET k == RunEnd(s, i, WordChars)
         IN  IF k < Len(s) /\ s[k + 1] = ":"
             THEN <<"\"">> \o SubSeq(s, i, k) \o <<"\"", ":">>
                      \o QuoteKeysFrom(s, k + 2)
             ELSE SubSeq(s, i, k) \o QuoteKeysFrom(s, k + 1)
    ELSE <<s[i]>> \o QuoteKeysFrom(s, i + 1)

QuoteKeys(line) == QuoteKeysFrom(line, 1)

\* Line 30: line.replace("'", '"').
ReplaceQuotes(line) ==
    [i \in 1..Len(line) |-> IF line[i] = "'" THEN "\"" ELSE line[i]]

---------------------------------------------------------------------------
(* Line 31: json.loads.  A recursive-descent decoder of objects, arrays,   *)
(* strings, null, true, false and unsigned numbers with an optional        *)
(* fraction.  Not modelled, and absent from every line the model feeds:    *)
(* backslash escapes in strings, a sign or an exponent on a number, and    *)
(* the NaN and Infinity literals.                                          *)
(* A parse step returns Ok(value, index after it) or Fail.                 *)

Fail == [ok |-> FALSE]

Ok(val, next) == [ok |-> TRUE, v |-> val, n |-> next]

SkipWs(s, i) == RunEnd(s, i, JsonWs) + 1

\* s[i] is the opening quote: the string ends at the next quote.
ParseString(s, i) ==
    LET j == Find(s, i + 1, "\"")
    IN  IF j > Len(s) THEN Fail ELSE Ok(PyStr(SubSeq(s, i + 1, j - 1)), j + 1)

\* (0|[1-9]\d*)(\.\d+)? at i: an int without a fraction, a float with one.
ParseNumber(s, i) ==
    IF i > Len(s) \/ s[i] \notin Digits THEN Fail
    ELSE LET ie == IF s[i] = "0" THEN i ELSE RunEnd(s, i, Digits)
             fe == IF HasAt(s, ie + 1, <<".">>)
                   THEN RunEnd(s, ie + 2, Digits) ELSE ie
         IN  IF fe >= ie + 2
             THEN Ok(PyFloat(ToNat(SubSeq(s, i, ie) \o SubSeq(s, ie + 2, fe)),
                             fe - ie - 1), fe + 1)
             ELSE Ok(PyInt(ToNat(SubSeq(s, i, ie))), ie + 1)

RECURSIVE ParseValue(_, _)
RECURSIVE ParseMembers(_, _, _)
RECURSIVE ParseElements(_, _, _)

\* The members of an object, from the first key at i; acc holds the
\* members read so far, and a repeated key keeps its last value.
ParseMembers(s, i, acc) ==
    IF ~HasAt(s, i, <<"\"">>) THEN Fail
    ELSE LET k == ParseString(s, i)
         IN  IF ~k.ok THEN Fail
             ELSE LET c == SkipWs(s, k.n)
                  IN  IF ~HasAt(s, c, <<":">>) THEN Fail
                      ELSE LET r == ParseValue(s, SkipWs(s, c + 1))
                           IN  IF ~r.ok THEN Fail
                               ELSE LET d == SkipWs(s, r.n)
                                        acc2 == (k.v.s :> r.v) @@ acc
                                    IN  IF HasAt(s, d, <<"}">>)
                                        THEN Ok(PyDict(acc2), d + 1)
                                        ELSE IF HasAt(s, d, <<",">>)
                                        THEN ParseMembers(s, SkipWs(s, d + 1), acc2)
                                        ELSE Fail

\* The elements of an array, from the first element at i.
ParseElements(s, i, acc) ==
    LET r == ParseValue(s, i)
    IN  IF ~r.ok THEN Fail
        ELSE LET d == SkipWs(s, r.n)
                 acc2 == Append(acc, r.v)
             IN  IF HasAt(s, d, <<"]">>) THEN Ok(PyList(acc2), d + 1)
                 ELSE IF HasAt(s, d, <<",">>)
                 THEN ParseElements(s, SkipWs(s, d + 1), acc2)
                 ELSE Fail

\* One JSON value at i (the scanner does not skip whitespace itself).
ParseValue(s, i) ==
    IF i > Len(s) THEN Fail
    ELSE IF s[i] = "\"" THEN ParseString(s, i)
    ELSE IF s[i] = "{"
    THEN LET j == SkipWs(s, i + 1)
         IN  IF HasAt(s, j, <<"}">>) THEN Ok(PyDict(<<>>), j + 1)
             ELSE ParseMembers(s, j, <<>>)
    ELSE IF s[i] = "["
    THEN LET j == SkipWs(s, i + 1)
         IN  IF HasAt(s, j, <<"]">>) THEN Ok(PyList(<<>>), j + 1)
             ELSE ParseElements(s, j, <<>>)
    ELSE IF HasAt(s, i, <<"n", "u", "l", "l">>) THEN Ok(None, i + 4)
    ELSE IF HasAt(s, i, <<"t", "r", "u", "e">>) THEN Ok(PyBool(TRUE), i + 4)
    ELSE IF HasAt(s, i, <<"f", "a", "l", "s", "e">>) THEN Ok(PyBool(FALSE), i + 5)
    ELSE ParseNumber(s, i)

\* json.loads(text): the value, when the text is one JSON value between
\* optional whitespace; otherwise it raises JSONDecodeError (ok = FALSE).
JsonLoads(text) ==
    LET r == ParseValue(text, SkipWs(text, 1))
    IN  IF r.ok /\ SkipWs(text, r.n) = Len(text) + 1
        THEN [ok |-> TRUE, v |-> r.v]
        ELSE Fail

---------------------------------------------------------------------------
(* Line 33: re.search(r"thrpt:\s+\[([\d.]+) Kelem", line), and line 36:    *)
(* float(m.group(1)).                                                      *)

ThrptLit == <<"t", "h", "r", "p", "t", ":">>

KelemLit == <<" ", "K", "e", "l", "e", "m">>

\* The pattern anchored at i: Ok(group 1, index after the match) or Fail.
\* Both repetitions are greedy and are followed by a character outside
\* their class, so each consumes its whole run.
MatchAt(s, i) ==
    LET a == i + Len(ThrptLit)
        b == RunEnd(s, a, SpaceChars)
        d == RunEnd(s, b + 2, DigitDotChars)
    IN  IF /\ HasAt(s, i, ThrptLit)
           /\ b >= a
           /\ HasAt(s, b + 1, <<"[">>)
           /\ d >= b + 2
           /\ HasAt(s, d + 1, KelemLit)
        THEN Ok(SubSeq(s, b + 2, d), d + 1 + Len(KelemLit))
        ELSE Fail

\* The leftmost match, or Fail (re.search returns None).
RECURSIVE SearchFrom(_, _)
SearchFrom(s, i) ==
    IF i > Len(s) THEN Fail
    ELSE IF MatchAt(s, i).ok THEN MatchAt(s, i)
    ELSE SearchFrom(s, i + 1)

ReSearch(line) == SearchFrom(line, 1)

\* float(g) for a run g of digits and dots: a number when g has at most
\* one dot and at least one digit ("1", "1.", ".5", "007.50"); otherwise
\* float raises ValueError (ok = FALSE).
Float(g) ==
    LET dot == Find(g, 1, ".")
        int == SubSeq(g, 1, dot - 1)
        frac == SubSeq(g, dot + 1, Len(g))
    IN  IF /\ \A i \in 1..Len(frac) : frac[i] \in Digits
           /\ Len(int) + Len(frac) >= 1
        THEN [ok |-> TRUE, v |-> PyFloat(ToNat(int \o frac), Len(frac))]
        ELSE Fail

FIELD_NAMES ==
    << <<"n", "a", "m", "e">>,
       <<"s", "e", "t", "_", "s", "i", "z", "e", "_", "m">>,
       <<"b", "a", "t", "c", "h", "_", "s", "i", "z", "e", "_", "k">>,
       <<"a", "r", "i", "t", "y">>,
       <<"t", "o", "t", "a", "l", "_", "m", "e", "m", "o", "r", "y", "_", "m">>,
       <<"n", "u", "m", "_", "h", "a", "s", "h", "i", "n", "g", "_", "p", "e", "r", "_", "b", "a", "t", "c", "h">>,
       <<"d", "i", "s", "k", "_", "b", "y", "t", "e", "s", "_", "p", "e", "r", "_", "u", "p", "d", "a", "t", "e">>,
       <<"k", "_", "u", "p", "d", "a", "t", "e", "s", "_", "p", "e", "r", "_", "s", "e", "c">> >>

---------------------------------------------------------------------------
(* The input lines the model draws from.  A line is modelled without its   *)
(* line terminator, which neither json.loads (trailing whitespace) nor     *)
(* re.search notices.                                                      *)

\* {name: 'a', arity: 2}   (a loose config literal: unquoted keys, single-quoted text)
CfgA ==
    <<"{", "n", "a", "m", "e", ":", " ", "'", "a", "'", ",", " ", "a", "r",
      "i", "t", "y", ":", " ", "2", "}">>

\* {"name": "b", set_size_m: 1.5}   (a config literal with a quoted key, double-quoted text and a fraction)
CfgB ==
    <<"{", "\"", "n", "a", "m", "e", "\"", ":", " ", "\"", "b", "\"", ",",
      " ", "s", "e", "t", "_", "s", "i", "z", "e", "_", "m", ":", " ", "1",
      ".", "5", "}">>

\* {arity: 3, k_updates_per_sec: 9}   (a config literal that itself gives k_updates_per_sec)
CfgK ==
    <<"{", "a", "r", "i", "t", "y", ":", " ", "3", ",", " ", "k", "_", "u",
      "p", "d", "a", "t", "e", "s", "_", "p", "e", "r", "_", "s", "e", "c",
      ":", " ", "9", "}">>

\* {name: 'a', x: 1}   (a config literal with a key outside FIELD_NAMES)
CfgX ==
    <<"{", "n", "a", "m", "e", ":", " ", "'", "a", "'", ",", " ", "x", ":",
      " ", "1", "}">>

\* null   (decodes to None)
LNull ==
    <<"n", "u", "l", "l">>

\* 5   (decodes to a number, not an object)
LFive ==
    <<"5">>

\* name: 'a'   (the literal without its braces: not valid JSON after normalisation)
LBare ==
    <<"n", "a", "m", "e", ":", " ", "'", "a", "'">>

\* thrpt:  [12.5 Kelem/s]   (a throughput line)
Thr1 ==
    <<"t", "h", "r", "p", "t", ":", " ", " ", "[", "1", "2", ".", "5", " ",
      "K", "e", "l", "e", "m", "/", "s", "]">>

\* thrpt: [007.50 Kelem/s]   (a throughput line whose number is not in canonical form)
Thr2 ==
    <<"t", "h", "r", "p", "t", ":", " ", "[", "0", "0", "7", ".", "5", "0",
      " ", "K", "e", "l", "e", "m", "/", "s", "]">>

\* thrpt: [99.0 Melem/s]   (a throughput line in another unit: no match)
ThrM ==
    <<"t", "h", "r", "p", "t", ":", " ", "[", "9", "9", ".", "0", " ", "M",
      "e", "l", "e", "m", "/", "s", "]">>

\* thrpt: [1.2.3 Kelem/s]   (matches the pattern, but the captured run is no number)
ThrD ==
    <<"t", "h", "r", "p", "t", ":", " ", "[", "1", ".", "2", ".", "3", " ",
      "K", "e", "l", "e", "m", "/", "s", "]">>

Lines ==
    {CfgA, CfgB, CfgK, CfgX, LNull, LFive, LBare, Thr1, Thr2, ThrM, ThrD}

---------------------------------------------------------------------------
(* The program.  Standard input is a stream: each turn of the for loop     *)
(* takes whichever line comes next, and the stream may end at any point.   *)

VARIABLES
    consumed,   \* sys.stdin: the lines the for loop has taken so far
    record,     \* line 26: None, or the value decoded from a config line
    out,        \* sys.stdout: the rows written, the header included
    pc,         \* "start", "loop", "done" (the loop ended), "failed"
    raised,     \* the unhandled exception and its line, "none" until then
    exitcode,   \* the exit status, Running until the process ends
    firstRun    \* what an earlier run of the script was fed and gave

vars == <<consumed, record, out, pc, raised, exitcode, firstRun>>

\* No exit status yet.
Running == -1

KEY == FIELD_NAMES[8]

\* The header row: the field names, in order.
Header == [i \in 1..Len(FIELD_NAMES) |-> PyStr(FIELD_NAMES[i])]

\* What csv writes for a value: None becomes the empty text, anything else
\* its str(); the cell keeps the value that str() renders.
Cell(val) == IF val = None THEN PyStr(<<>>) ELSE val

\* DictWriter._dict_to_list: the record's values in field order, the empty
\* text (restval) for a field the record lacks.
Row(rec) ==
    [i \in 1..Len(FIELD_NAMES) |->
        IF FIELD_NAMES[i] \in DOMAIN rec.d THEN Cell(rec.d[FIELD_NAMES[i]])
        ELSE PyStr(<<>>)]

\* A variant of WrongFields for a writer built with extrasaction = "ignore":
\* no key is ever refused.
WrongFieldsIgnored(rec) == {}

\* DictWriter with the default extrasaction = "raise": the keys of the
\* record that are no field name.
WrongFields(rec) ==
    {k \in DOMAIN rec.d : \A i \in 1..Len(FIELD_NAMES) : FIELD_NAMES[i] # k}

\* A variant of SetItem that keeps a value the key already has
\* (record.setdefault(key, val)).
SetItemKeepingOld(rec, key, val) == PyDict(rec.d @@ (key :> val))

\* record[key] = val on a dict.
SetItem(rec, key, val) == PyDict((key :> val) @@ rec.d)

\* Lines 29-30: the two substitutions.
Normalize(line) == ReplaceQuotes(QuoteKeys(line))

\* A variant of AwaitingConfig that takes anything but a dict for "no
\* record" (`if not isinstance(record, dict)`).
AwaitingConfigUnlessDict == record = None \/ record.t # "dict"

\* Line 28: the test that picks the branch of the loop body.
AwaitingConfig == record = None

\* An unhandled exception: the interpreter prints the traceback and exits
\* with status 1; nothing more is read or written.
Raise(exc) ==
    /\ pc' = "failed"
    /\ raised' = exc
    /\ exitcode' = 1

\* There has been no earlier run.
NoRun ==
    [ran |-> FALSE, input |-> <<>>, out |-> <<>>, pc |-> "start",
     raised |-> "none", exitcode |-> Running]

Init ==
    /\ consumed = <<>>
    /\ record = None
    /\ out = <<>>
    /\ pc = "start"
    /\ raised = "none"
    /\ exitcode = Running
    /\ firstRun = NoRun

\* A variant of WriteHeader that leaves out writer.writeheader() (line 23).
WriteHeaderForgotten ==
    /\ pc = "start"
    /\ record' = None
    /\ pc' = "loop"
    /\ UNCHANGED <<consumed, out, raised, exitcode, firstRun>>

\* Lines 22-26: the writer is made, the header written, record set to None.
WriteHeader ==
    /\ pc = "start"
    /\ out' = Append(out, Header)
    /\ record' = None
    /\ pc' = "loop"
    /\ UNCHANGED <<consumed, raised, exitcode, firstRun>>

\* A variant of DecodeFailed that catches the exception and goes on to the
\* next line.
DecodeFailedSkipped == UNCHANGED <<record, pc, raised, exitcode>>

\* Line 31: json.loads raises and nothing catches it.
DecodeFailed ==
    /\ Raise("JSONDecodeError@31")
    /\ UNCHANGED record

\* Lines 27-31: a line read while record is None.
ReadConfigLine ==
    /\ pc = "loop"
    /\ Len(consumed) < MaxLines
    /\ AwaitingConfig
    /\ \E line \in Lines :
          /\ consumed' = Append(consumed, line)
          /\ LET d == JsonLoads(Normalize(line))
             IN  IF d.ok
                 THEN /\ record' = d.v
                      /\ UNCHANGED <<pc, raised, exitcode>>
                 ELSE DecodeFailed
    /\ UNCHANGED <<out, firstRun>>

\* A variant of DidntMatch whose outcome is not fixed by the input: the line
\* is refused or passed over, as it happens.
DidntMatchAtTimes ==
    \/ /\ Raise("TypeError@35")
       /\ UNCHANGED <<record, out>>
    \/ UNCHANGED <<record, out, pc, raised, exitcode>>

\* A variant of DidntMatch that looks at the content of the line: a line
\* that decodes is taken as the start of a new record, replacing the
\* pending one.
DidntMatchStartsRecord ==
    LET d == JsonLoads(Normalize(consumed'[Len(consumed')]))
    IN  IF d.ok
        THEN /\ record' = d.v
             /\ UNCHANGED <<out, pc, raised, exitcode>>
        ELSE /\ Raise("TypeError@35")
             /\ UNCHANGED <<record, out>>

\* A variant of DidntMatch that skips the line and keeps waiting for a
\* throughput line (`continue` in place of the raise).
DidntMatchSkipped == UNCHANGED <<record, out, pc, raised, exitcode>>

\* Lines 34-35: no match.  `raise "Didn't match"` raises a str, which is
\* itself a TypeError; either way the exception is unhandled.
DidntMatch ==
    /\ Raise("TypeError@35")
    /\ UNCHANGED <<record, out>>

\* A variant of WriteRow that puts the new row right under the header, above
\* the rows written before.
WriteRowOnTop(o, rec) == <<o[1], Row(rec)>> \o Tail(o)

\* Line 37: writer.writerow appends the row to the output.
WriteRow(o, rec) == Append(o, Row(rec))

\* Lines 27-28, 32-38: a line read while record holds a value.
ReadThroughputLine ==
    /\ pc = "loop"
    /\ Len(consumed) < MaxLines
    /\ ~AwaitingConfig
    /\ UNCHANGED firstRun
    /\ \E line \in Lines :
          /\ consumed' = Append(consumed, line)
          /\ LET m == ReSearch(line)
                 f == Float(m.v)
                 rec == SetItem(record, KEY, f.v)
             IN  IF ~m.ok
                 THEN DidntMatch
                 ELSE IF ~f.ok
                 THEN \* line 36: float() of a run such as 1.2.3
                      /\ Raise("ValueError@36")
                      /\ UNCHANGED <<record, out>>
                 ELSE IF record.t # "dict"
                 THEN \* line 36: the value does not take item assignment
                      /\ Raise("TypeError@36")
                      /\ UNCHANGED <<record, out>>
                 ELSE IF WrongFields(rec) # {}
                 THEN \* line 37: DictWriter refuses a key that is no field
                      /\ Raise("ValueError@37")
                      /\ record' = rec
                      /\ UNCHANGED out
                 ELSE /\ out' = WriteRow(out, rec)
                      /\ record' = None
                      /\ UNCHANGED <<pc, raised, exitcode>>

\* A variant of EndOfInput for a read that blocks when the input is
\* exhausted: the loop never ends.
EndOfInputHangs ==
    /\ pc = "loop"
    /\ UNCHANGED vars

\* A variant of EndOfInput that treats a record still pending when the input
\* ends as an error.
EndOfInputStrict ==
    /\ pc = "loop"
    /\ IF record = None
       THEN pc' = "done" /\ exitcode' = 0 /\ raised' = raised
       ELSE Raise("ValueError@38")
    /\ UNCHANGED <<consumed, record, out, firstRun>>

\* A variant of EndOfInput that writes out a record still pending when the
\* input ends.
EndOfInputFlushing ==
    /\ pc = "loop"
    /\ pc' = "done"
    /\ exitcode' = 0
    /\ out' = IF record # None /\ record.t = "dict"
              THEN Append(out, Row(record)) ELSE out
    /\ UNCHANGED <<consumed, record, raised, firstRun>>

\* Line 27: standard input is exhausted; the loop and the script end.
EndOfInput ==
    /\ pc = "loop"
    /\ pc' = "done"
    /\ exitcode' = 0
    /\ UNCHANGED <<consumed, record, out, raised, firstRun>>

Next ==
    \/ WriteHeader
    \/ ReadConfigLine
    \/ ReadThroughputLine
    \/ EndOfInput

Spec == Init /\ [][Next]_vars

\* The run on a finite input: the interpreter is never suspended for ever,
\* so the header is written, and the input runs out, so the loop's iterator
\* is exhausted unless the run has ended before.
SpecLive == Spec /\ WF_vars(WriteHeader) /\ WF_vars(EndOfInput)

----------------------------------------------------------------------------
(* Two runs of the script, one after the other, on the same input.  The     *)
(* script opens no file and keeps nothing outside its process: a run starts *)
(* from Init whatever ran before.                                           *)

IsPrefix(a, b) == Len(a) <= Len(b) /\ SubSeq(b, 1, Len(a)) = a

\* A step of the first run.
FirstRun ==
    /\ ~firstRun.ran
    /\ Next

\* The first run is over: what it consumed and gave is noted, and a new
\* process starts.
Rerun ==
    /\ ~firstRun.ran
    /\ pc \in {"done", "failed"}
    /\ firstRun' = [ran |-> TRUE, input |-> consumed, out |-> out, pc |-> pc,
                    raised |-> raised, exitcode |-> exitcode]
    /\ consumed' = <<>>
    /\ record' = None
    /\ out' = <<>>
    /\ pc' = "start"
    /\ raised' = "none"
    /\ exitcode' = Running

\* A step of the second run: it is fed the lines the first run was fed, in
\* the same order, and its input ends where the first run's input ended.
SecondRun ==
    /\ firstRun.ran
    /\ Next
    /\ IsPrefix(consumed', firstRun.input)
    /\ pc' = "done" => (consumed = firstRun.input /\ firstRun.pc = "done")

NextRerun ==
    \/ FirstRun
    \/ Rerun
    \/ SecondRun

SpecRerun == Init /\ [][NextRerun]_vars

---------------------------------------------------------------------------
(* Vocabulary of the properties.                                           *)

\* What the Record Parser makes of a line, and what the Throughput Extractor
\* finds in it, tabulated once for the lines of the input.
DecodedLines == [line \in Lines |-> JsonLoads(Normalize(line))]

SearchedLines == [line \in Lines |-> ReSearch(line)]

Decoded(line) == DecodedLines[line]

Searched(line) == SearchedLines[line]

\* Whether the Throughput Extractor finds its pattern in a line.
Matches(line) == Searched(line).ok

\* A config line: it decodes to an object.
IsConfigLine(line) == Decoded(line).ok /\ Decoded(line).v.t = "dict"

\* This step takes one line from the input; NewLine is that line.
Consumes == Len(consumed') = Len(consumed) + 1

NewLine == consumed'[Len(consumed')]

\* The last line taken so far.
LastLine == consumed[Len(consumed)]

\* The data rows written so far.
NRows == Len(out) - 1

\* The places j of c where a config line stands right before a line that
\* matches the throughput pattern, in input order.
RECURSIVE PairsFrom(_, _)
PairsFrom(c, j) ==
    IF j >= Len(c) THEN <<>>
    ELSE IF IsConfigLine(c[j]) /\ Matches(c[j + 1])
    THEN <<j>> \o PairsFrom(c, j + 1)
    ELSE PairsFrom(c, j + 1)

CompletePairs(c) == PairsFrom(c, 1)

\* The row a config line and the throughput line after it stand for: the
\* number of the throughput line last, before it the fields the config line
\* gives, empty where it gives none.
ExpectedRow(cfg, thr) ==
    [i \in 1..Len(FIELD_NAMES) |->
        IF i = Len(FIELD_NAMES) THEN Float(Searched(thr).v).v
        ELSE IF FIELD_NAMES[i] \in DOMAIN Decoded(cfg).v.d
        THEN Cell(Decoded(cfg).v.d[FIELD_NAMES[i]])
        ELSE PyStr(<<>>)]

\* The header and the rows of the complete pairs of c, in input order.
ExpectedOutput(c) ==
    LET pairs == CompletePairs(c)
    IN  <<Header>> \o [i \in 1..Len(pairs) |->
                          ExpectedRow(c[pairs[i]], c[pairs[i] + 1])]

---------------------------------------------------------------------------
(* Properties.                                                             *)

\* C1: after any prefix of the input has been consumed, the number of data
\* rows written equals the number of complete (config line, matching
\* throughput line) pairs consumed so far, so no row exists for a config
\* line whose throughput line has not been consumed.
C1_RowsEqualCompletePairs ==
    pc # "start" => NRows = Len(CompletePairs(consumed))

\* C2: while a throughput line is awaited, a line that does not match the
\* pattern ends the run at once in failure: it is not skipped, no row is
\* written for the pending record, and once failed the run consumes and
\* writes nothing more.
C2_NoMatchAborts ==
    [][ /\ (pc = "loop" /\ record # None /\ Consumes /\ ~Matches(NewLine))
            => (pc' = "failed" /\ exitcode' = 1 /\ out' = out)
        /\ pc = "failed" => (consumed' = consumed /\ out' = out)
      ]_vars

\* C2 witness: the run has failed on a non-matching line read while a record
\* was pending, after one pair had been written.
C2_Witness ==
    /\ pc = "failed"
    /\ raised = "TypeError@35"
    /\ record # None
    /\ ~Matches(LastLine)
    /\ NRows = 1

\* C3: when the input ends while a throughput line is awaited, the pending
\* record is dropped: nothing is written, nothing is raised, and the run
\* ends normally with exit status 0.
C3_EofMidPairIsNormal ==
    [][ (pc = "loop" /\ record # None /\ consumed' = consumed)
            => /\ pc' = "done"
               /\ exitcode' = 0
               /\ raised' = "none"
               /\ out' = out
      ]_vars

\* C3 witness: the run is over with a record still pending and only the
\* header written.
C3_Witness ==
    /\ pc = "done"
    /\ record # None
    /\ record.t = "dict"
    /\ out = <<Header>>

\* C4: in every run the header is written exactly once and first: before
\* any line is consumed and before any data row, also when the input is
\* empty and when the run fails.
C4_HeaderFirstOnce ==
    /\ pc = "start" => (out = <<>> /\ consumed = <<>>)
    /\ pc # "start" =>
          /\ Len(out) >= 1
          /\ out[1] = Header
          /\ \A i \in 2..Len(out) : out[i] # Header

\* C4 witness: a run that wrote a row and then failed.
C4_Witness ==
    /\ pc = "failed"
    /\ Len(out) = 2
    /\ out[1] = Header

\* C5: a line that is consumed while a config line is awaited and is not
\* valid JSON after normalisation ends the run at once in failure, and the
\* output is then the header and the rows of the pairs completed before
\* that line, with nothing for the failing line.
C5_BadConfigAborts ==
    [][ (pc = "loop" /\ record = None /\ Consumes /\ ~Decoded(NewLine).ok)
            => /\ pc' = "failed"
               /\ exitcode' = 1
               /\ out' = out
               /\ out' = ExpectedOutput(consumed)
      ]_vars

\* C5 witness: the run has failed in the decoder after one pair was written.
C5_Witness ==
    /\ pc = "failed"
    /\ raised = "JSONDecodeError@31"
    /\ NRows = 1

\* C6: rows are written in input order: the i-th data row is the row of
\* the i-th complete (config, throughput) pair of the input, and while the
\* run has not failed every complete pair has its row.
C6_RowsInInputOrder ==
    pc # "start" =>
        LET pairs == CompletePairs(consumed)
        IN  /\ NRows <= Len(pairs)
            /\ \A i \in 1..NRows :
                  out[i + 1] = ExpectedRow(consumed[pairs[i]],
                                           consumed[pairs[i] + 1])
            /\ pc # "failed" => NRows = Len(pairs)

\* C6 witness: two different rows have been written, from two pairs.
C6_Witness ==
    /\ NRows = 2
    /\ out[2] # out[3]
    /\ Len(CompletePairs(consumed)) = 2

\* C7: when a row is written, its k_updates_per_sec is the number captured
\* from the throughput line just consumed, whatever the config line gave for
\* that key, and each other field the config line right before it gives has
\* the value parsed from that config line.
C7_RowFromItsOwnPair ==
    [][ (pc = "loop" /\ Len(out') = Len(out) + 1)
            => /\ Consumes
               /\ consumed # <<>>
               /\ IsConfigLine(LastLine)
               /\ out'[Len(out')][Len(FIELD_NAMES)]
                      = Float(Searched(NewLine).v).v
               /\ \A i \in 1..(Len(FIELD_NAMES) - 1) :
                     FIELD_NAMES[i] \in DOMAIN Decoded(LastLine).v.d
                        => out'[Len(out')][i]
                              = Cell(Decoded(LastLine).v.d[FIELD_NAMES[i]])
      ]_vars

\* C7 witness: the second row comes from the config line that gives
\* k_updates_per_sec: 9 and the throughput line with 007.50; it carries 7.5,
\* not 9 and not the 12.5 of the first row.
C7_Witness ==
    /\ NRows = 2
    /\ consumed[3] = CfgK
    /\ consumed[4] = Thr2
    /\ out[2][Len(FIELD_NAMES)] = PyFloat(125, 1)
    /\ out[3][Len(FIELD_NAMES)] = PyFloat(75, 1)
    /\ out[3][4] = PyInt(3)

\* C8: while a throughput line is awaited, every line that matches the
\* pattern has exactly one row written, clears the pending record and leaves
\* the run going; it never ends in an error.
C8_MatchWritesOneRow ==
    [][ (pc = "loop" /\ record # None /\ Consumes /\ Matches(NewLine))
            => /\ Len(out') = Len(out) + 1
               /\ record' = None
               /\ pc' = "loop"
               /\ raised' = "none"
      ]_vars

\* C9: while a config line is awaited, every line that decodes without
\* error leaves a pending record, so that the next line is taken as a
\* throughput line; this for every decoded value, null included.
C9_DecodedLineIsPending ==
    [][ (pc = "loop" /\ record = None /\ Consumes /\ Decoded(NewLine).ok)
            => (pc' = "loop" /\ record' # None)
      ]_vars

\* Whether processing a line fails, given the record pending when it is
\* read: the decoder rejects it; or the pattern is absent, the captured run
\* is no number, the record takes no item assignment, or it has a key that
\* is no field name.
LineFails(rec, line) ==
    IF rec = None THEN ~Decoded(line).ok
    ELSE \/ ~Matches(line)
         \/ ~Float(Searched(line).v).ok
         \/ rec.t # "dict"
         \/ WrongFields(rec) # {}

\* C10: the run ends with exit status 0 exactly when the input ends with
\* every consumed line processed without failure (also in the middle of a
\* pair), and with a non-zero status exactly when a consumed line fails.
C10_ExitCodeTellsFailure ==
    [][ pc = "loop" =>
          /\ (Consumes /\ LineFails(record, NewLine))
                => (pc' = "failed" /\ exitcode' = 1)
          /\ (Consumes /\ ~LineFails(record, NewLine))
                => (pc' = "loop" /\ exitcode' = Running)
          /\ consumed' = consumed => (pc' = "done" /\ exitcode' = 0)
      ]_vars

\* C10 witness: a run that ended normally in the middle of a pair after one
\* full pair.
C10_Witness ==
    /\ pc = "done"
    /\ exitcode = 0
    /\ record # None
    /\ NRows = 1

\* Whether sequence a is an initial part of sequence b.
\* C12: the output is append-only: every step leaves what was written as a
\* prefix of the new output; consuming a config line and any failing step
\* leave the output as it was, and consuming a matching throughput line
\* appends exactly one row.
C12_OutputAppendOnly ==
    [][ /\ IsPrefix(out, out')
        /\ (pc = "loop" /\ record = None /\ Consumes) => out' = out
        /\ pc' = "failed" => out' = out
        /\ (pc = "loop" /\ record # None /\ Consumes /\ Matches(NewLine))
              => (IsPrefix(out, out') /\ Len(out') = Len(out) + 1)
      ]_vars

\* C13: a line is interpreted by the state it is read in, never by its
\* content.  A throughput-shaped line read while a config line is awaited
\* goes through the Record Parser: it is not skipped and not used as a
\* measurement, and the run aborts when it does not decode.  A config-shaped
\* line read while a throughput line is awaited goes through the Throughput
\* Extractor and aborts the run; it does not start a new record.
C13_ByStateNotContent ==
    [][ /\ (pc = "loop" /\ record = None /\ Consumes /\ Matches(NewLine))
              => /\ out' = out
                 /\ IF Decoded(NewLine).ok
                    THEN pc' = "loop" /\ record' = Decoded(NewLine).v
                    ELSE /\ pc' = "failed"
                         /\ raised' = "JSONDecodeError@31"
                         /\ record' = None
        /\ (pc = "loop" /\ record # None /\ Consumes /\ IsConfigLine(NewLine))
              => /\ pc' = "failed"
                 /\ raised' = "TypeError@35"
                 /\ record' = record
                 /\ out' = out
      ]_vars

\* C13 witness: after one written pair, a throughput line came where a
\* config line was due, and the decoder ended the run on it.
C13_Witness ==
    /\ pc = "failed"
    /\ raised = "JSONDecodeError@31"
    /\ Matches(LastLine)
    /\ NRows = 1

\* The exceptions of the throughput branch (lines 35-37).
ThroughputErrors ==
    {"TypeError@35", "ValueError@36", "TypeError@36", "ValueError@37"}

\* C14: between two lines the scanner is in one of two states, and it starts
\* awaiting a config line with no pending record.  A record is pending
\* exactly when the next line is handled as a throughput line (it ends in a
\* written row that clears the record, or in an error of the throughput
\* branch); with none pending the next line is handled as a config line (it
\* becomes the record, or the decoder fails).  A pending record is never
\* replaced by another one.
C14_PendingIffAwaitingThroughput ==
    /\ [](pc = "loop" /\ consumed = <<>> => record = None)
    /\ [][ (pc = "loop" /\ Consumes) =>
             /\ record = None =>
                   /\ out' = out
                   /\ \/ pc' = "loop" /\ record' = Decoded(NewLine).v
                      \/ pc' = "failed" /\ raised' = "JSONDecodeError@31"
             /\ record # None =>
                   \/ /\ pc' = "loop"
                      /\ Len(out') = Len(out) + 1
                      /\ record' = None
                   \/ /\ pc' = "failed"
                      /\ raised' \in ThroughputErrors
                      /\ out' = out
         ]_vars

\* C14 witness: one pair has been written and the next config line read: a
\* record is pending again.
C14_Witness ==
    /\ pc = "loop"
    /\ record # None
    /\ NRows = 1
    /\ Len(consumed) = 3

\* The fixed field names as a set, and the keys of a dict that are none of
\* them.
FieldNameSet == {FIELD_NAMES[i] : i \in 1..Len(FIELD_NAMES)}

ExtraKeys(rec) == DOMAIN rec.d \ FieldNameSet

\* C15: the field list is enforced only when the row is written.  A config
\* line that decodes to a dict is accepted whatever its keys: it becomes the
\* pending record and nothing is raised.  When a matching throughput line is
\* then consumed, a record with a key outside the eight field names aborts
\* the run and no row is written for the pair; a record with only field
\* names, some of them missing, does not abort on a line whose number
\* converts, and its row has the empty text in every field it lacks.
C15_FieldsEnforcedAtWrite ==
    [][ /\ (/\ pc = "loop" /\ record = None /\ Consumes
            /\ Decoded(NewLine).ok
            /\ Decoded(NewLine).v.t = "dict")
              => /\ pc' = "loop"
                 /\ raised' = "none"
                 /\ record' = Decoded(NewLine).v
                 /\ out' = out
        /\ (/\ pc = "loop" /\ record # None /\ Consumes
            /\ record.t = "dict"
            /\ ExtraKeys(record) # {}
            /\ Matches(NewLine))
              => /\ pc' = "failed"
                 /\ exitcode' = 1
                 /\ out' = out
        /\ (/\ pc = "loop" /\ record # None /\ Consumes
            /\ record.t = "dict"
            /\ ExtraKeys(record) = {}
            /\ Matches(NewLine)
            /\ Float(Searched(NewLine).v).ok)
              => /\ pc' = "loop"
                 /\ Len(out') = Len(out) + 1
                 /\ IsPrefix(out, out')
                 /\ \A i \in 1..Len(FIELD_NAMES) :
                       FIELD_NAMES[i] \notin DOMAIN record.d \cup {KEY}
                          => out'[Len(out')][i] = PyStr(<<>>)
      ]_vars

\* C15 witness: a first record that lacks some fields has given a row with
\* empty fields, and a second one with a key that is no field name was
\* accepted and has aborted the run on its matching throughput line.
C15_Witness ==
    /\ pc = "failed"
    /\ raised = "ValueError@37"
    /\ ExtraKeys(record) # {}
    /\ Matches(LastLine)
    /\ NRows = 1
    /\ \E i \in 1..Len(FIELD_NAMES) : out[2][i] = PyStr(<<>>)

\* C16: the run ends: it reaches normal completion or failure.  Each step
\* consumes at most one line, the next one of the input, so that every line
\* is consumed at most once and in order; a line whose processing fails ends
\* the run, and a run that is over consumes nothing more.
C16_TerminatesInOrder ==
    /\ <>(pc \in {"done", "failed"})
    /\ [][ /\ \/ consumed' = consumed
              \/ /\ Len(consumed') = Len(consumed) + 1
                 /\ IsPrefix(consumed, consumed')
           /\ (pc = "loop" /\ Consumes /\ LineFails(record, NewLine))
                 => pc' = "failed"
           /\ pc \in {"done", "failed"} => (consumed' = consumed /\ pc' = pc)
         ]_vars

\* C16 witness: a run that consumed as many lines as the bound allows, wrote
\* two rows on the way, and failed on its last line.
C16_Witness ==
    /\ pc = "failed"
    /\ Len(consumed) = MaxLines
    /\ NRows = 2
    /\ LineFails(record, LastLine)

====
